---------------------------- MODULE Spec2Model ----------------------------
(***************************************************************************)
(* A model of the notebooks of the coastal-applications workshop:          *)
(*   - notebooks/examples/03_Sentinel-1_WaterDetection.ipynb: the kernel   *)
(*     namespace and one action per code cell (speckle filter, dB          *)
(*     conversion, histogram threshold, classifier, water summary);        *)
(*   - lee_filter, as a function of one time slice and a window size;      *)
(*   - the same cells run by hand in any order;                            *)
(*   - the tide-model clipping loop;                                       *)
(*   - the cell order of every notebook.                                   *)
(* Pixel values are IEEE numbers modelled exactly: a finite value is the   *)
(* rational n/d in lowest terms, d = 0 marks NaN (n = 0) and the           *)
(* infinities (n = 1, n = -1).  The field lg counts the decibel            *)
(* conversions 10*log10 applied on top of the rational: [n, d, lg = 1]     *)
(* is the real number 10*log10(n/d).                                       *)
(***************************************************************************)
EXTENDS Integers, Sequences, FiniteSets, TLC

VARIABLES
    pc,             \* water notebook: index of the next code cell to run
    pass,           \* water notebook: 1 = first run, 2 = the re-run
    failed,         \* water notebook: a cell raised, the run stopped
    geom,           \* the study area selected on the map
    items,          \* the item collection the search returned
    data,           \* the xarray Dataset: band name -> cube
    valid,          \* np.isfinite(data)
    threshold_vv,   \* the threshold the histogram cell found
    S1_default,     \* the default bound to S1_water_classifier's threshold
    water_summary,  \* the Dataset water_percentage / water_stdev
    rule,           \* which admissible threshold threshold_minimum returns
    fn, arg, ret,   \* a call of one function: its name, argument, result
    nb, cell, done, found,   \* a notebook run top to bottom
    tide            \* the tide-model clipping loop

kernel == <<pc, pass, failed, geom, items, data, valid, threshold_vv,
            S1_default, water_summary, rule>>
call   == <<fn, arg, ret>>
book   == <<nb, cell, done, found>>
vars   == <<kernel, call, book, tide>>

---------------------------------------------------------------------------
(* IEEE values as exact rationals *)

Abs(i) == IF i < 0 THEN -i ELSE i

Sign(i) == IF i < 0 THEN -1 ELSE IF i > 0 THEN 1 ELSE 0

RECURSIVE GCD(_, _)
GCD(a, b) == IF b = 0 THEN a ELSE GCD(b, a % b)

\* n/d in lowest terms with a positive denominator (d # 0)
Q(n, d) ==
    LET g == GCD(Abs(n), Abs(d))
        s == IF d < 0 THEN -1 ELSE 1
    IN  [n |-> s * (n \div g), d |-> Abs(d) \div g, lg |-> 0]

Num(i)  == [n |-> i, d |-> 1, lg |-> 0]
NaN     == [n |-> 0, d |-> 0, lg |-> 0]
PosInf  == [n |-> 1, d |-> 0, lg |-> 0]
NegInf  == [n |-> -1, d |-> 0, lg |-> 0]

IsNaN(v)    == v.d = 0 /\ v.n = 0
IsInf(v)    == v.d = 0 /\ v.n # 0
\* np.isfinite
IsFinite(v) == v.d # 0

Add(a, b) ==
    IF IsNaN(a) \/ IsNaN(b) THEN NaN
    ELSE IF IsInf(a) /\ IsInf(b) THEN (IF a.n = b.n THEN a ELSE NaN)
    ELSE IF IsInf(a) THEN a
    ELSE IF IsInf(b) THEN b
    ELSE LET g == GCD(a.d, b.d)     \* over the least common denominator
         IN  Q(a.n * (b.d \div g) + b.n * (a.d \div g), (a.d \div g) * b.d)

Neg(a) == [a EXCEPT !.n = -a.n]

Sub(a, b) == Add(a, Neg(b))

Mul(a, b) ==
    IF IsNaN(a) \/ IsNaN(b) THEN NaN
    ELSE IF IsInf(a) \/ IsInf(b)
         THEN (IF a.n = 0 \/ b.n = 0 THEN NaN
               ELSE IF Sign(a.n) * Sign(b.n) > 0 THEN PosInf ELSE NegInf)
    ELSE LET g == GCD(Abs(a.n), b.d)     \* cancel before multiplying
             h == GCD(Abs(b.n), a.d)
         IN  Q((a.n \div g) * (b.n \div h), (a.d \div h) * (b.d \div g))

\* IEEE division: x/0 is an infinity, 0/0 and inf/inf are NaN
Div(a, b) ==
    IF IsNaN(a) \/ IsNaN(b) THEN NaN
    ELSE IF IsInf(a) THEN (IF IsInf(b) THEN NaN
                           ELSE IF Sign(a.n) * (IF b.n < 0 THEN -1 ELSE 1) > 0
                                THEN PosInf ELSE NegInf)
    ELSE IF IsInf(b) THEN Num(0)
    ELSE IF b.n = 0 THEN (IF a.n = 0 THEN NaN
                          ELSE IF a.n > 0 THEN PosInf ELSE NegInf)
    ELSE Mul(a, Q(b.d, b.n))

Sq(a) == Mul(a, a)

RECURSIVE LessQ(_, _, _, _)
\* n1/d1 < n2/d2 for positive denominators, by the integer parts and then
\* the reciprocals of the remainders (no product is formed)
LessQ(n1, d1, n2, d2) ==
    LET q1 == n1 \div d1
        q2 == n2 \div d2
        r1 == n1 % d1
        r2 == n2 % d2
    IN  IF q1 # q2 THEN q1 < q2
        ELSE IF r2 = 0 THEN FALSE
        ELSE IF r1 = 0 THEN TRUE
        ELSE LessQ(d2, r2, d1, r1)

\* a < b on values of the same lg level (10*log10 is increasing); any
\* comparison with NaN is False
Less(a, b) ==
    /\ ~IsNaN(a) /\ ~IsNaN(b)
    /\ IF IsInf(a) \/ IsInf(b)
       THEN (IF IsInf(a) /\ IsInf(b) THEN a.n < b.n
             ELSE IF IsInf(a) THEN a.n < 0 ELSE b.n > 0)
       ELSE LessQ(a.n, a.d, b.n, b.d)

---------------------------------------------------------------------------
(* Bounds of the model *)

\* rows and columns of a time slice of the lee_filter specification
LeeShape == [rows |-> 2, cols |-> 3]
\* window sizes lee_filter is called with (the notebook's is 7)
Sizes == {1, 3, 7}
\* largest pixel value of the lee_filter specification's slices
MaxPix == 2

---------------------------------------------------------------------------
(* lee_filter *)

Pixels(rows, cols) == (0..(rows - 1)) \X (0..(cols - 1))

\* the index scipy's mode='reflect' (d c b a | a b c d | d c b a) reads for
\* position i of an axis of length len
Reflect(i, len) ==
    LET j == i % (2 * len)
    IN  IF j < len THEN j ELSE 2 * len - 1 - j

RECURSIVE SumOver(_, _, _)
\* the sum of f[i] for i in lo..hi, added in index order
SumOver(f, lo, hi) ==
    IF lo > hi THEN Num(0) ELSE Add(f[lo], SumOver(f, lo + 1, hi))

\* scipy.ndimage.uniform_filter1d along an axis of length len, origin 0:
\* line is a function 0..len-1 -> value
uniform_filter1d(line, len, size) ==
    [i \in 0..(len - 1) |->
        LET lo == i - (size \div 2)
            w  == [k \in lo..(lo + size - 1) |-> line[Reflect(k, len)]]
        IN  Div(SumOver(w, lo, lo + size - 1), Num(size))]

\* scipy.ndimage.uniform_filter of a 2-D image (rows x cols): one
\* uniform_filter1d pass along each axis, the second on the first's output
uniform_filter(img, rows, cols, size) ==
    LET pass0 == [x \in 0..(cols - 1) |->
                    uniform_filter1d([y \in 0..(rows - 1) |-> img[<<y, x>>]],
                                     rows, size)]
        pass1 == [y \in 0..(rows - 1) |->
                    uniform_filter1d([x \in 0..(cols - 1) |-> pass0[x][y]],
                                     cols, size)]
    IN  [p \in DOMAIN img |-> pass1[p[1]][p[2]]]

\* the pixels of a rows x cols image in row-major order
PixelSeq(rows, cols) ==
    [i \in 1..(rows * cols) |-> <<(i - 1) \div cols, (i - 1) % cols>>]

\* (mutant) the sample variance, dividing by one less than the pixel count
variance_ddof1(img, rows, cols) ==
    LET ps   == PixelSeq(rows, cols)
        cnt  == rows * cols
        mean == Div(SumOver([i \in 1..cnt |-> img[ps[i]]], 1, cnt), Num(cnt))
        dev  == [i \in 1..cnt |-> Sq(Sub(img[ps[i]], mean))]
    IN  Div(SumOver(dev, 1, cnt), Num(cnt - 1))

\* scipy.ndimage.variance without labels: the mean of the squared
\* deviations from the mean
variance(img, rows, cols) ==
    LET ps   == PixelSeq(rows, cols)
        cnt  == rows * cols
        mean == Div(SumOver([i \in 1..cnt |-> img[ps[i]]], 1, cnt), Num(cnt))
        dev  == [i \in 1..cnt |-> Sq(Sub(img[ps[i]], mean))]
    IN  Div(SumOver(dev, 1, cnt), Num(cnt))

\* (mutant) the weight taken as the ratio of the local to the overall
\* variance
lee_filter_ratio(img, rows, cols, size) ==
    LET img_mean         == uniform_filter(img, rows, cols, size)
        img_sqr_mean     == uniform_filter([p \in DOMAIN img |-> Sq(img[p])],
                                           rows, cols, size)
        img_variance     == [p \in DOMAIN img |->
                                Sub(img_sqr_mean[p], Sq(img_mean[p]))]
        overall_variance == variance(img, rows, cols)
        img_weights      == [p \in DOMAIN img |->
                                Div(img_variance[p], overall_variance)]
    IN  [p \in DOMAIN img |->
            Add(img_mean[p], Mul(img_weights[p], Sub(img[p], img_mean[p])))]

\* lee_filter(da, size) on one time slice
lee_filter(img, rows, cols, size) ==
    LET img_mean         == uniform_filter(img, rows, cols, size)
        img_sqr_mean     == uniform_filter([p \in DOMAIN img |-> Sq(img[p])],
                                           rows, cols, size)
        img_variance     == [p \in DOMAIN img |->
                                Sub(img_sqr_mean[p], Sq(img_mean[p]))]
        overall_variance == variance(img, rows, cols)
        img_weights      == [p \in DOMAIN img |->
                                Div(img_variance[p],
                                    Add(img_variance[p], overall_variance))]
    IN  [p \in DOMAIN img |->
            Add(img_mean[p], Mul(img_weights[p], Sub(img[p], img_mean[p])))]

---------------------------------------------------------------------------
(* The cells of 03_Sentinel-1_WaterDetection.ipynb as functions *)

\* rows and columns of the loaded cube of the water notebook
Shape == [rows |-> 2, cols |-> 2]
\* number of time steps (solar days) of the loaded cube
NumTimes == 2
\* the window size the filter cell passes to lee_filter
FilterSize == 7

Times == 1..NumTimes

\* one (vv, vh) observation of a pixel, linear backscatter
Water == [vv |-> Num(1), vh |-> Num(1)]     \* calm water: both low
Rough == [vv |-> Num(8), vh |-> Num(1)]     \* wind-roughened water: vv high
Land  == [vv |-> Num(8), vh |-> Num(4)]
Marsh == [vv |-> Num(3), vh |-> Num(2)]
NoVh  == [vv |-> Num(2), vh |-> NaN]        \* vh missing only
NoDat == [vv |-> NaN, vh |-> NaN]           \* outside the swath
Glint == [vv |-> PosInf, vh |-> NaN]        \* not finite, not NaN

\* the scenes of the catalog, each the pixels of one solar day in row-major
\* order
Scenes == <<
    <<Water, Rough, Land, Land>>,
    <<Marsh, Glint, NoVh, Land>>,
    <<NoDat, NoDat, NoDat, NoDat>> >>

\* a study area: the scene the catalog holds over it for each solar day
Geoms == [Times -> DOMAIN Scenes]

\* client.search(...).item_collection(): the items over the selected area
search(g) == g

\* one band of a scene as an image: pixel <<row, col>> -> value
SceneBand(sc, band) ==
    [p \in Pixels(Shape.rows, Shape.cols) |-> sc[p[1] * Shape.cols + p[2] + 1][band]]

\* odc.stac.load(items, measurements=["vv", "vh"], groupby="solar_day"):
\* band -> time -> pixel -> value
load(its) ==
    [b \in {"vv", "vh"} |-> [t \in DOMAIN its |-> SceneBand(Scenes[its[t]], b)]]

\* ds[name] = cube
Assign(ds, name, cube) == (name :> cube) @@ ds

\* data['vh/vv'] = data.vh / data.vv
RatioBand(ds) ==
    Assign(ds, "vh/vv",
           [t \in DOMAIN ds["vh"] |->
              [p \in DOMAIN ds["vh"][t] |-> Div(ds["vh"][t][p], ds["vv"][t][p])]])

\* np.isfinite(data): every band of the Dataset
isfinite(ds) ==
    [b \in DOMAIN ds |->
       [t \in DOMAIN ds[b] |-> [p \in DOMAIN ds[b][t] |->
          IF b = "water" THEN TRUE     \* a boolean is finite
          ELSE IsFinite(ds[b][t][p])]]]

\* da.where(cond, other)
Where(cube, cond, other) ==
    [t \in DOMAIN cube |-> [p \in DOMAIN cube[t] |->
        IF cond[t][p] THEN cube[t][p] ELSE other]]

\* lee_filter(img, size=FilterSize) of every slice the catalog's scenes can
\* give the filter cell (a band with its non-finite pixels set to 0),
\* computed once
SceneSlices ==
    {[p \in Pixels(Shape.rows, Shape.cols) |->
        IF IsFinite(SceneBand(Scenes[i], b)[p]) THEN SceneBand(Scenes[i], b)[p]
        ELSE Num(0)] : i \in DOMAIN Scenes, b \in {"vv", "vh"}}

LeeOfSlice ==
    [img \in SceneSlices |-> lee_filter(img, Shape.rows, Shape.cols, FilterSize)]
        @@ <<>>

\* da.groupby("time").map(lee_filter, size=size)
LeeByTime(cube, size) ==
    [t \in DOMAIN cube |->
        IF size = FilterSize /\ cube[t] \in SceneSlices
        THEN LeeOfSlice[cube[t]]
        ELSE lee_filter(cube[t], Shape.rows, Shape.cols, size)]

\* (mutant) the vh band masked with the vv band's valid mask
FilterBands_vvmask(ds, ok) ==
    LET masked == [b \in DOMAIN ds |-> Where(ds[b], ok[b], Num(0))]
        f_vv   == LeeByTime(masked["vv"], FilterSize)
        f_vh   == LeeByTime(masked["vh"], FilterSize)
        ds1    == Assign(Assign(ds, "filtered_vv", f_vv), "filtered_vh", f_vh)
        ds2    == Assign(ds1, "filtered_vv", Where(ds1["filtered_vv"], ok["vv"], NaN))
    IN  Assign(ds2, "filtered_vh", Where(ds2["filtered_vh"], ok["vv"], NaN))

\* the speckle-filter cell after the definition of lee_filter: the Dataset
\* it leaves, given the valid mask it computed
FilterBands(ds, ok) ==
    LET masked == [b \in DOMAIN ds |-> Where(ds[b], ok[b], Num(0))]
        f_vv   == LeeByTime(masked["vv"], FilterSize)
        f_vh   == LeeByTime(masked["vh"], FilterSize)
        ds1    == Assign(Assign(ds, "filtered_vv", f_vv), "filtered_vh", f_vh)
        ds2    == Assign(ds1, "filtered_vv", Where(ds1["filtered_vv"], ok["vv"], NaN))
    IN  Assign(ds2, "filtered_vh", Where(ds2["filtered_vh"], ok["vh"], NaN))

\* the sign of a finite value v = 10*log10(... 10*log10(n/d)) with v.lg >= 1
\* logarithms: v > 0 exactly when n/d is above 1 (one logarithm), above
\* 10^0.1 (two), above 10^(0.1 * 10^0.1) (three).  The last two are
\* irrational and are given by the millionths either side of them.
LogSign(v) ==
    LET lo == CASE v.lg = 1 -> Num(1)
                [] v.lg = 2 -> Q(1258925, 1000000)
                [] v.lg = 3 -> Q(1336264, 1000000)
        hi == CASE v.lg = 1 -> Num(1)
                [] v.lg = 2 -> Q(1258926, 1000000)
                [] v.lg = 3 -> Q(1336265, 1000000)
    IN  CASE LessQ(hi.n, hi.d, v.n, v.d) -> 1
          [] LessQ(v.n, v.d, lo.n, lo.d) -> -1
          [] v.lg = 1 /\ v.n = v.d -> 0

\* 10 * np.log10(v), for v a rational, a special value or some decibel
\* levels above a rational
Decibel(v) ==
    IF IsNaN(v) THEN NaN
    ELSE IF IsInf(v) THEN (IF v.n > 0 THEN PosInf ELSE NaN)
    ELSE IF v.lg = 0
         THEN (IF v.n < 0 THEN NaN
               ELSE IF v.n = 0 THEN NegInf
               ELSE [v EXCEPT !.lg = 1])
    ELSE LET sign == LogSign(v)
         IN  IF sign > 0 THEN [v EXCEPT !.lg = v.lg + 1]
             ELSE IF sign = 0 THEN NegInf
             ELSE NaN

\* 10 * np.log10(cube), elementwise
DecibelCube(cube) ==
    [t \in DOMAIN cube |-> [p \in DOMAIN cube[t] |-> Decibel(cube[t][p])]]

\* (mutant) only the vv band is converted
DecibelBands_vvonly(ds) ==
    Assign(ds, "filtered_vv", DecibelCube(ds["filtered_vv"]))

\* the dB conversion cell
DecibelBands(ds) ==
    LET ds1 == Assign(ds, "filtered_vv", DecibelCube(ds["filtered_vv"]))
    IN  Assign(ds1, "filtered_vh", DecibelCube(ds1["filtered_vh"]))

\* cube.values[~np.isnan(cube.values)], as the set of its values
NoNans(cube) ==
    {cube[t][p] : t \in DOMAIN cube, p \in Pixels(Shape.rows, Shape.cols)}
        \ {NaN}

\* the values of a finite set of comparable values in increasing order
RECURSIVE Sorted(_)
Sorted(S) ==
    IF S = {} THEN <<>>
    ELSE LET lo == CHOOSE x \in S : \A y \in S : ~Less(y, x)
         IN  <<lo>> \o Sorted(S \ {lo})

\* what skimage.filters.threshold_minimum may do with the histogram of vals:
\* raise (an infinite range, or no two maxima to separate), or return a
\* value that separates two neighbouring populations: one between them, or
\* the upper one itself when a bin centre falls on it
ThresholdRaises(vals) ==
    \/ \E v \in vals : IsInf(v)
    \/ Cardinality(vals) < 2

\* a value strictly between two finite values a < b of one lg level: the
\* mediant of the two fractions
Between(a, b) == [Q(a.n + b.n, a.d + b.d) EXCEPT !.lg = a.lg]

\* threshold_minimum is a function: the same histogram gives the same
\* threshold.  r selects which of the admissible values it is.
threshold_minimum(vals, r) ==
    LET s == Sorted(vals)
        i == 1 + (r.gap % (Len(s) - 1))
    IN  IF r.at = "centre" THEN s[i + 1]
        ELSE Between(s[i], s[i + 1])

Rules == [gap : {0, 1}, at : {"between", "centre"}]

\* (mutant) da <= threshold
S1_water_classifier_le(cube, threshold) ==
    [t \in DOMAIN cube |-> [p \in DOMAIN cube[t] |->
        Less(cube[t][p], threshold) \/ cube[t][p] = threshold]]

\* S1_water_classifier(da, threshold): da < threshold
S1_water_classifier(cube, threshold) ==
    [t \in DOMAIN cube |-> [p \in DOMAIN cube[t] |-> Less(cube[t][p], threshold)]]

\* True = 1, False = 0
Bit(b) == IF b THEN Num(1) ELSE Num(0)

\* (mutant) water.max(dim='time'): water at any time step
MeanTime_any(water, p) ==
    IF \E t \in DOMAIN water : water[t][p] THEN Num(1) ELSE Num(0)

\* water.mean(dim='time') of one pixel's series
MeanTime(water, p) ==
    Div(SumOver([t \in DOMAIN water |-> Bit(water[t][p])], 1, Len(water)),
        Num(Len(water)))

\* (mutant) the sample standard deviation, ddof=1
StdTime_ddof1(water, p) ==
    LET m   == MeanTime(water, p)
        dev == [t \in DOMAIN water |-> Sq(Sub(Bit(water[t][p]), m))]
    IN  [sqrt_of |-> Div(SumOver(dev, 1, Len(water)), Num(Len(water) - 1))]

\* (mutant) deviations taken from the first time step instead of the mean
StdTime_first(water, p) ==
    LET dev == [t \in DOMAIN water |-> Sq(Sub(Bit(water[t][p]), Bit(water[1][p])))]
    IN  [sqrt_of |-> Div(SumOver(dev, 1, Len(water)), Num(Len(water)))]

\* water.std(dim='time') of one pixel's series: the square root of the mean
\* squared deviation from the mean; sqrt(q) is kept as [sqrt_of |-> q]
StdTime(water, p) ==
    LET m   == MeanTime(water, p)
        dev == [t \in DOMAIN water |-> Sq(Sub(Bit(water[t][p]), m))]
    IN  [sqrt_of |-> Div(SumOver(dev, 1, Len(water)), Num(Len(water)))]

\* sqrt(q) * c = sqrt(q * c * c)
Scale(root, c) == [sqrt_of |-> Mul(root.sqrt_of, Num(c * c))]

\* the summary cell: water_percentage and water_stdev
Summarise(water) ==
    [water_percentage |-> [p \in DOMAIN water[1] |-> Mul(MeanTime(water, p), Num(100))],
     water_stdev      |-> [p \in DOMAIN water[1] |-> Scale(StdTime(water, p), 100)]]

---------------------------------------------------------------------------
(* Values of the variables a specification does not use *)

Unset == <<>>

KernelIdle ==
    /\ pc = 0 /\ pass = 0 /\ failed = FALSE
    /\ geom = 0 /\ items = Unset /\ data = Unset /\ valid = Unset
    /\ threshold_vv = Unset /\ S1_default = Unset /\ water_summary = Unset
    /\ rule = Unset

CallIdle == fn = "" /\ arg = Unset /\ ret = Unset

BookIdle == nb = "" /\ cell = 0 /\ done = <<>> /\ found = 0

TideIdle == tide = Unset

---------------------------------------------------------------------------
(* Specification SpecLee: lee_filter called on one time slice *)

LeeImages == [Pixels(LeeShape.rows, LeeShape.cols) -> {Num(i) : i \in 0..MaxPix}]

InitLee ==
    /\ fn = "lee_filter"
    /\ arg \in [img : LeeImages, size : Sizes]
    /\ ret = Unset
    /\ KernelIdle /\ BookIdle /\ TideIdle

CallLee ==
    /\ fn = "lee_filter" /\ ret = Unset
    /\ ret' = lee_filter(arg.img, LeeShape.rows, LeeShape.cols, arg.size)
    /\ UNCHANGED <<fn, arg, kernel, book, tide>>

NextLee == CallLee

SpecLee == InitLee /\ [][NextLee]_vars

\* the mean of f over the size x size window of the image at pixel p, read
\* directly (positions outside the image are mirrored at its edge)
WindowMean(f, rows, cols, size, p) ==
    LET lo == 0 - (size \div 2)
        hi == lo + size - 1
        row == [dy \in lo..hi |->
                  SumOver([dx \in lo..hi |->
                             f[<<Reflect(p[1] + dy, rows), Reflect(p[2] + dx, cols)>>]],
                          lo, hi)]
    IN  Div(SumOver(row, lo, hi), Num(size * size))

\* the variance of the whole slice: mean of squares minus square of the mean
SliceVariance(img, rows, cols) ==
    LET ps  == PixelSeq(rows, cols)
        cnt == rows * cols
        m1  == Div(SumOver([i \in 1..cnt |-> img[ps[i]]], 1, cnt), Num(cnt))
        m2  == Div(SumOver([i \in 1..cnt |-> Sq(img[ps[i]])], 1, cnt), Num(cnt))
    IN  Sub(m2, Sq(m1))

LeeLocalMean(p) ==
    WindowMean(arg.img, LeeShape.rows, LeeShape.cols, arg.size, p)

\* the window's mean of squares
LeeLocalSqMean(p) ==
    WindowMean([q \in DOMAIN arg.img |-> Sq(arg.img[q])],
               LeeShape.rows, LeeShape.cols, arg.size, p)

LeeLocalVar(p) == Sub(LeeLocalSqMean(p), Sq(LeeLocalMean(p)))

\* C1: every pixel p of the slice lee_filter returns is
\* m + (v / (v + V)) * (p - m), with m the mean of the size x size window
\* centred on the pixel, v that window's mean of squares minus the square of
\* m, and V the variance of the whole slice.
C1_LeeFormula ==
    (fn = "lee_filter" /\ ret # Unset) =>
        LET V == SliceVariance(arg.img, LeeShape.rows, LeeShape.cols)
        IN  \A p \in DOMAIN arg.img :
                LET m == LeeLocalMean(p)
                    v == Sub(LeeLocalSqMean(p), Sq(m))
                IN  ret[p] = Add(m, Mul(Div(v, Add(v, V)), Sub(arg.img[p], m)))

\* C1 witness: a 7 x 7 call returned a pixel strictly between its local
\* mean and its input value
C1_Witness ==
    /\ fn = "lee_filter" /\ ret # Unset /\ arg.size = 7
    /\ \E p \in DOMAIN arg.img :
          /\ Less(LeeLocalMean(p), ret[p])
          /\ Less(ret[p], arg.img[p])

\* a lies between b and c, ends included
Within(a, b, c) ==
    \/ ~Less(a, b) /\ ~Less(c, a)
    \/ ~Less(a, c) /\ ~Less(b, a)

IsZero(a) == IsFinite(a) /\ ~Less(a, Num(0)) /\ ~Less(Num(0), a)

\* C11: at every pixel of a slice whose overall variance V is positive and
\* whose local variance v is not negative, the weight v / (v + V) is at
\* least 0 and lower than 1, the output lies between the local mean m and
\* the pixel value p (ends included, so never beyond p), and where v = 0
\* the output is m.
C11_BlendTowardMean ==
    (fn = "lee_filter" /\ ret # Unset) =>
        LET V == SliceVariance(arg.img, LeeShape.rows, LeeShape.cols)
        IN  Less(Num(0), V) =>
              \A p \in DOMAIN arg.img :
                LET m == LeeLocalMean(p)
                    v == Sub(LeeLocalSqMean(p), Sq(m))
                    w == Div(v, Add(v, V))
                IN  (IsFinite(v) /\ ~Less(v, Num(0))) =>
                        /\ IsFinite(w) /\ ~Less(w, Num(0)) /\ Less(w, Num(1))
                        /\ IsFinite(ret[p])
                        /\ Within(ret[p], m, arg.img[p])
                        /\ (IsZero(v) => ret[p] = m)

\* C11 witness: a 3 x 3 call on a slice of positive variance returned one
\* pixel of local variance 0 and another, of positive local variance, whose
\* output moved off its local mean without reaching the pixel value
C11_Witness ==
    /\ fn = "lee_filter" /\ ret # Unset /\ arg.size = 3
    /\ Less(Num(0), SliceVariance(arg.img, LeeShape.rows, LeeShape.cols))
    /\ \E p \in DOMAIN arg.img : IsZero(LeeLocalVar(p)) /\ ret[p] = LeeLocalMean(p)
    /\ \E q \in DOMAIN arg.img :
          /\ Less(Num(0), LeeLocalVar(q))
          /\ ret[q] # LeeLocalMean(q) /\ ret[q] # arg.img[q]
          /\ Within(ret[q], LeeLocalMean(q), arg.img[q])

---------------------------------------------------------------------------
(* Specification Spec: the water-detection notebook run top to bottom, then *)
(* re-run from the study-area cell with another selection                  *)

\* the code cells, numbered in notebook order
SelectCell    == 3      \* study_area, geom = select_on_a_map(...)
SearchCell    == 4
LoadCell      == 5
RatioCell     == 8
FilterCell    == 10
DecibelCell   == 12
ThresholdCell == 14
DefineCell    == 16     \* def S1_water_classifier
ApplyCell     == 17
SummaryCell   == 18
LastCell      == 19
\* imports, the STAC client and the plots: no name the analysis reads changes
DisplayCells  == {1, 2, 6, 7, 9, 11, 13, 15, 19}

Init ==
    /\ pc = 1 /\ pass = 1 /\ failed = FALSE
    /\ geom = Unset /\ items = Unset /\ data = Unset /\ valid = Unset
    /\ threshold_vv = Unset /\ S1_default = Unset /\ water_summary = Unset
    /\ rule \in Rules
    /\ CallIdle /\ BookIdle /\ TideIdle

Step == ~failed /\ pc' = pc + 1 /\ UNCHANGED <<pass, failed, rule, call, book, tide>>

CellDisplay ==
    /\ pc \in DisplayCells /\ Step
    /\ UNCHANGED <<geom, items, data, valid, threshold_vv, S1_default, water_summary>>

CellSelect ==
    /\ pc = SelectCell /\ Step
    /\ geom' \in Geoms
    /\ UNCHANGED <<items, data, valid, threshold_vv, S1_default, water_summary>>

CellSearch ==
    /\ pc = SearchCell /\ Step
    /\ items' = search(geom)
    /\ UNCHANGED <<geom, data, valid, threshold_vv, S1_default, water_summary>>

CellLoad ==
    /\ pc = LoadCell /\ Step
    /\ data' = load(items)
    /\ UNCHANGED <<geom, items, valid, threshold_vv, S1_default, water_summary>>

CellRatio ==
    /\ pc = RatioCell /\ Step
    /\ data' = RatioBand(data)
    /\ UNCHANGED <<geom, items, valid, threshold_vv, S1_default, water_summary>>

CellFilter ==
    /\ pc = FilterCell /\ Step
    /\ valid' = isfinite(data)
    /\ data' = FilterBands(data, valid')
    /\ UNCHANGED <<geom, items, threshold_vv, S1_default, water_summary>>

CellDecibel ==
    /\ pc = DecibelCell /\ Step
    /\ data' = DecibelBands(data)
    /\ UNCHANGED <<geom, items, valid, threshold_vv, S1_default, water_summary>>

\* vv_no_nans = data.filtered_vv.values[~np.isnan(...)];
\* threshold_vv = threshold_minimum(vv_no_nans)
CellThreshold ==
    /\ pc = ThresholdCell /\ ~failed
    /\ LET vv_no_nans == NoNans(data["filtered_vv"])
       IN  IF ThresholdRaises(vv_no_nans)
           THEN failed' = TRUE /\ UNCHANGED <<pc, threshold_vv>>
           ELSE /\ failed' = FALSE /\ pc' = pc + 1
                /\ threshold_vv' = threshold_minimum(vv_no_nans, rule)
    /\ UNCHANGED <<pass, rule, geom, items, data, valid, S1_default, water_summary,
                   call, book, tide>>

\* (mutant) the def statement is skipped when the function already exists,
\* so the default stays the first run's threshold
CellDefine_once ==
    /\ pc = DefineCell /\ Step
    /\ S1_default' = IF S1_default = Unset THEN threshold_vv ELSE S1_default
    /\ UNCHANGED <<geom, items, data, valid, threshold_vv, water_summary>>

\* def S1_water_classifier(da, threshold=threshold_vv): the default is
\* evaluated when the def statement runs
CellDefine ==
    /\ pc = DefineCell /\ Step
    /\ S1_default' = threshold_vv
    /\ UNCHANGED <<geom, items, data, valid, threshold_vv, water_summary>>

\* data['water'] = S1_water_classifier(data.filtered_vv).s1_water
CellApply ==
    /\ pc = ApplyCell /\ Step
    /\ data' = Assign(data, "water", S1_water_classifier(data["filtered_vv"], S1_default))
    /\ UNCHANGED <<geom, items, valid, threshold_vv, S1_default, water_summary>>

CellSummary ==
    /\ pc = SummaryCell /\ Step
    /\ water_summary' = Summarise(data["water"])
    /\ UNCHANGED <<geom, items, data, valid, threshold_vv, S1_default>>

\* "return to the parameters, modify some values and rerun the analysis"
Rerun ==
    /\ pc = LastCell + 1 /\ pass = 1 /\ ~failed
    /\ pass' = 2 /\ pc' = SelectCell
    /\ UNCHANGED <<failed, rule, geom, items, data, valid, threshold_vv, S1_default,
                   water_summary, call, book, tide>>

Next ==
    \/ CellDisplay \/ CellSelect \/ CellSearch \/ CellLoad \/ CellRatio
    \/ CellFilter \/ CellDecibel \/ CellThreshold \/ CellDefine \/ CellApply
    \/ CellSummary \/ Rerun

Spec == Init /\ [][Next]_vars

---------------------------------------------------------------------------
(* Claims checked under Spec *)

Bands == {"vv", "vh"}

FilteredName(b) == IF b = "vv" THEN "filtered_vv" ELSE "filtered_vh"

Has(name) == name \in DOMAIN data

\* C2: once the speckle-filter cell has run, and still after the dB cell,
\* every pixel and time step whose loaded vv (vh) value is not finite is
\* null in filtered_vv (filtered_vh).
C2_NullStaysNull ==
    Has("filtered_vv") =>
        \A b \in Bands : \A t \in DOMAIN data[b] : \A p \in DOMAIN data[b][t] :
            ~IsFinite(data[b][t][p]) => IsNaN(data[FilteredName(b)][t][p])

\* C2 witness: after the dB cell, a pixel whose vv is infinite is null in
\* filtered_vv, and a pixel null in vh only is null in filtered_vh while its
\* filtered_vv is a number
C2_Witness ==
    /\ pc > DecibelCell /\ Has("filtered_vv")
    /\ \E t \in DOMAIN data["vv"] : \E p, q \in DOMAIN data["vv"][t] :
          /\ IsInf(data["vv"][t][p]) /\ IsNaN(data["filtered_vv"][t][p])
          /\ IsNaN(data["vh"][t][q]) /\ IsNaN(data["filtered_vh"][t][q])
          /\ IsFinite(data["vv"][t][q]) /\ ~IsNaN(data["filtered_vv"][t][q])

\* C3 (the claim as stated): the threshold is the histogram threshold of the
\* filtered VH band, and data['water'] compares the filtered VH band with it.
C3_ClassifierOnVH ==
    (pc > ApplyCell /\ Has("water")) =>
        LET vh_no_nans == NoNans(data["filtered_vh"])
        IN  /\ ~ThresholdRaises(vh_no_nans)
            /\ threshold_vv = threshold_minimum(vh_no_nans, rule)
            /\ data["water"] = S1_water_classifier(data["filtered_vh"], threshold_vv)

\* C4: the classifier gives every pixel and time step exactly one of True
\* and False: True exactly when the value is strictly lower than the
\* threshold, False for a value equal to or above it.
C4_StrictlyBelow ==
    (pc > ApplyCell /\ Has("water")) =>
        \A t \in DOMAIN data["water"] : \A p \in DOMAIN data["water"][t] :
            LET v == data["filtered_vv"][t][p]
                w == data["water"][t][p]
            IN  /\ w \in BOOLEAN
                /\ w <=> (~IsNaN(v) /\ v # S1_default /\ ~Less(S1_default, v))
                /\ (v = S1_default \/ Less(S1_default, v)) => ~w

\* C4 witness: one mask holds a water pixel, a pixel equal to the threshold
\* classified not water, and a pixel above it classified not water
C4_Witness ==
    /\ pc > ApplyCell /\ Has("water")
    /\ \E t1, t2, t3 \in DOMAIN data["water"] :
       \E p1, p2, p3 \in DOMAIN data["water"][t1] :
          /\ data["water"][t1][p1]
          /\ data["filtered_vv"][t2][p2] = S1_default /\ ~data["water"][t2][p2]
          /\ Less(S1_default, data["filtered_vv"][t3][p3]) /\ ~data["water"][t3][p3]

\* the whole notebook in a fresh kernel with study area g: what the cells
\* compute from the loaded cube alone
FreshRun(g, r) ==
    LET d0 == RatioBand(load(search(g)))
        d1 == DecibelBands(FilterBands(d0, isfinite(d0)))
        vs == NoNans(d1["filtered_vv"])
        th == IF ThresholdRaises(vs) THEN Unset ELSE threshold_minimum(vs, r)
        w  == S1_water_classifier(d1["filtered_vv"], th)
    IN  [raises      |-> ThresholdRaises(vs),
         filtered_vv |-> d1["filtered_vv"],
         filtered_vh |-> d1["filtered_vh"],
         threshold   |-> th,
         water       |-> IF ThresholdRaises(vs) THEN Unset ELSE w,
         summary     |-> IF ThresholdRaises(vs) THEN Unset ELSE Summarise(w)]

AtEnd == pc = LastCell + 1 /\ ~failed

\* C9: at the end of a run, the first in a fresh kernel or the re-run from
\* the study-area cell with another selection, the filtered bands, the
\* threshold, the water mask and the water summary are those of the whole
\* notebook run in a fresh kernel on the current selection.
C9_RerunInPlace ==
    AtEnd =>
        LET fresh == FreshRun(geom, rule)
        IN  /\ ~fresh.raises
            /\ data["filtered_vv"] = fresh.filtered_vv
            /\ data["filtered_vh"] = fresh.filtered_vh
            /\ threshold_vv = fresh.threshold
            /\ data["water"] = fresh.water
            /\ water_summary = fresh.summary

\* C9 witness: the re-run has finished on a selection whose water mask and
\* threshold differ from what the first run left in the kernel
C9_Witness ==
    /\ AtEnd /\ pass = 2
    /\ \E g \in Geoms :
          /\ ~FreshRun(g, rule).raises
          /\ FreshRun(g, rule).water # data["water"]
          /\ FreshRun(g, rule).threshold # threshold_vv

---------------------------------------------------------------------------
(* Specification SpecSummary: the summary cell on any water mask *)

\* longest time series of the summary specification
MaxSteps == 3

SummaryPixels == Pixels(1, 2)

WaterCubes == UNION {[1..n -> [SummaryPixels -> BOOLEAN]] : n \in 1..MaxSteps}

InitSummary ==
    /\ fn = "summary"
    /\ arg \in WaterCubes
    /\ ret = Unset
    /\ KernelIdle /\ BookIdle /\ TideIdle

CallSummary ==
    /\ fn = "summary" /\ ret = Unset
    /\ ret' = Summarise(arg)
    /\ UNCHANGED <<fn, arg, kernel, book, tide>>

NextSummary == CallSummary

SpecSummary == InitSummary /\ [][NextSummary]_vars

Summarised == fn = "summary" /\ ret # Unset

\* the time steps at which pixel p is classified water
WaterSteps(p) == {t \in DOMAIN arg : arg[t][p]}

\* the pixel's class is not the same at all time steps
Changes(p) == \E t1, t2 \in DOMAIN arg : arg[t1][p] # arg[t2][p]

\* C5: water_percentage of every pixel is 100 * k / T, k the number of time
\* steps classified water and T the number of time steps: 100 for a pixel
\* always water, 0 for a pixel always land, strictly between for the others.
C5_Percentage ==
    Summarised =>
        \A p \in SummaryPixels :
            LET k   == Cardinality(WaterSteps(p))
                T   == Len(arg)
                pct == ret.water_percentage[p]
            IN  /\ pct = Q(100 * k, T)
                /\ (k = T) => pct = Num(100)
                /\ (k = 0) => pct = Num(0)
                /\ (0 < k /\ k < T) => (Less(Num(0), pct) /\ Less(pct, Num(100)))

C5_Witness ==
    /\ Summarised
    /\ \E p, q \in SummaryPixels :
          /\ ret.water_percentage[p] = Q(200, 3)
          /\ ret.water_percentage[q] = Num(100)

\* C6: water_stdev of a pixel is 0 exactly when its class is the same at
\* all time steps, which is exactly when water_percentage is 0 or 100, and
\* it is greater than 0 for a pixel that changes class.
C6_StdevZero ==
    Summarised =>
        \A p \in SummaryPixels :
            LET sd2 == ret.water_stdev[p].sqrt_of
                pct == ret.water_percentage[p]
            IN  /\ (sd2 = Num(0)) <=> ~Changes(p)
                /\ (sd2 = Num(0)) <=> (pct = Num(0) \/ pct = Num(100))
                /\ Changes(p) => Less(Num(0), sd2)

C6_Witness ==
    /\ Summarised /\ Len(arg) > 1
    /\ \E p, q \in SummaryPixels :
          /\ Changes(p) /\ Less(Num(0), ret.water_stdev[p].sqrt_of)
          /\ ~Changes(q) /\ ret.water_stdev[q].sqrt_of = Num(0)

\* the mask with the time steps of pixel p reordered by f
Reordered(p, f) ==
    [t \in DOMAIN arg |-> [q \in SummaryPixels |->
        IF q = p THEN arg[f[t]][q] ELSE arg[t][q]]]

\* C7: reordering the time steps of any pixel leaves water_percentage and
\* water_stdev of every pixel unchanged, and two pixels with the same number
\* of water steps have the same water_stdev and water_percentage.
C7_OrderInsensitive ==
    Summarised =>
        /\ \A p \in SummaryPixels : \A f \in Permutations(DOMAIN arg) :
              Summarise(Reordered(p, f)) = ret
        /\ \A p, q \in SummaryPixels :
              Cardinality(WaterSteps(p)) = Cardinality(WaterSteps(q)) =>
                 /\ ret.water_stdev[p] = ret.water_stdev[q]
                 /\ ret.water_percentage[p] = ret.water_percentage[q]

\* C7 witness: one pixel alternates water, land, water; another is land
\* first and water for the remaining steps; both have the same stdev
C7_Witness ==
    /\ Summarised /\ Len(arg) = 3
    /\ \E p, q \in SummaryPixels :
          /\ arg[1][p] /\ ~arg[2][p] /\ arg[3][p]
          /\ ~arg[1][q] /\ arg[2][q] /\ arg[3][q]
          /\ ret.water_stdev[p] = ret.water_stdev[q]
          /\ ret.water_stdev[p].sqrt_of # Num(0)

---------------------------------------------------------------------------
(* Specification SpecNotebooks: a notebook run top to bottom *)

\* most items a catalog search returns
MaxItems == 3

\* the steps of each code cell, in the order the cell performs them
WaterCells == <<
    <<"import">>, <<"client">>, <<"params">>, <<"search">>, <<"load">>,
    <<"plot">>, <<"plot">>, <<"transform">>, <<"plot">>, <<"transform">>,
    <<"plot">>, <<"transform">>, <<"plot">>, <<"transform">>, <<"plot">>,
    <<"define">>, <<"transform">>, <<"transform", "plot">>, <<"plot">> >>

\* (mutant) the load cell placed above the search cell
LandsatCells_loadfirst == <<
    <<"import">>, <<"client">>, <<"params">>, <<"load">>, <<"search">>,
    <<"config">>, <<"plot">>, <<"transform", "plot">>, <<"transform", "export">> >>

\* notebooks/01_Landsat_GettingStarted.ipynb
LandsatCells == <<
    <<"import">>, <<"client">>, <<"params">>, <<"search">>, <<"load">>,
    <<"config">>, <<"plot">>, <<"transform", "plot">>, <<"transform", "export">> >>

\* notebooks/Landsat_GettingStarted.ipynb
LandsatDraftCells == <<
    <<"import">>, <<"client">>, <<"params">>, <<"search">>, <<"load">>,
    <<"plot">>, <<"transform", "plot">>, <<"export">> >>

\* the Sentinel-2 notebook
Sentinel2Cells == <<
    <<"import">>, <<"client">>, <<"params">>, <<"search">>, <<"load">>,
    <<"plot">>, <<"transform", "plot">>, <<"export">> >>

\* the Sentinel-1 maximum-backscatter notebook
Sentinel1MaxCells == <<
    <<"import">>, <<"client", "params">>, <<"params">>, <<"search">>,
    <<"load", "transform">>, <<"transform">>, <<"plot">> >>

\* the tide-model clipping notebook: the last cell lists the local files and
\* opens, clips and writes each
TideCells == <<
    <<"import">>, <<"params">>, <<"list", "load", "transform", "export">> >>

Cells ==
    [water |-> WaterCells, landsat |-> LandsatCells, landsat_draft |-> LandsatDraftCells,
     sentinel2 |-> Sentinel2Cells, sentinel1_max |-> Sentinel1MaxCells,
     tide |-> TideCells]

Notebooks == DOMAIN Cells

InitNotebooks ==
    /\ nb \in Notebooks /\ cell = 1 /\ done = <<>> /\ found = 0
    /\ KernelIdle /\ CallIdle /\ TideIdle

Does(kind, steps) == \E i \in DOMAIN steps : steps[i] = kind

\* run the next code cell of the notebook
RunCell ==
    /\ nb \in Notebooks /\ cell <= Len(Cells[nb])
    /\ cell' = cell + 1
    /\ done' = done \o Cells[nb][cell]
    /\ IF Does("search", Cells[nb][cell])
       THEN found' \in 1..MaxItems
       ELSE found' = found
    /\ UNCHANGED <<nb, kernel, call, tide>>

NextNotebooks == RunCell

SpecNotebooks == InitNotebooks /\ [][NextNotebooks]_vars

\* every step of one of the kinds ks comes after a step of kind k
After(k, ks) ==
    \A i \in DOMAIN done : done[i] \in ks => \E j \in 1..(i - 1) : done[j] = k

---------------------------------------------------------------------------
(* Specification SpecClip: the tide-model clipping loop *)

\* most files the glob matches
MaxFiles == 2

\* the bounding box, in units of 0.0001 degree
miny == 14105
minx == 1008070
maxy == 266540
maxx == 1316330

\* coordinates a tide-model grid may have around the edges of the box
LonValues == {minx - 1, minx, minx + 1, maxx, maxx + 1}
LatValues == {miny - 1, miny, maxy - 1, maxy, maxy + 1}

\* the elements of a set of integers in increasing order
RECURSIVE Ascending(_)
Ascending(S) ==
    IF S = {} THEN <<>>
    ELSE LET lo == CHOOSE x \in S : \A y \in S : x <= y
         IN  <<lo>> \o Ascending(S \ {lo})

\* a tide-model file: ascending lon and lat coordinates and one value per
\* grid point, stored by position (row = lat index, column = lon index)
TideFiles ==
    {[lon |-> Ascending(X), lat |-> Ascending(Y),
      val |-> [j \in 1..Cardinality(Y) |-> [i \in 1..Cardinality(X) |-> 10 * j + i]]]
        : X \in SUBSET LonValues \ {{}}, Y \in SUBSET LatValues \ {{}}}

\* numpy searchsorted on an ascending index: the number of elements lower
\* than x (side='left'), or not greater than x (side='right')
SearchLeft(coords, x)  == Cardinality({i \in DOMAIN coords : coords[i] < x})
SearchRight(coords, x) == Cardinality({i \in DOMAIN coords : coords[i] <= x})

\* (mutant) a slice that leaves out its stop label, as positional slices do
SliceLocs_halfopen(coords, start, stop) ==
    [first |-> SearchLeft(coords, start) + 1, last |-> SearchLeft(coords, stop)]

\* pandas Index.slice_locs(start, stop) on an ascending index: the positions
\* first..last of the labels in [start, stop], both ends included
SliceLocs(coords, start, stop) ==
    [first |-> SearchLeft(coords, start) + 1, last |-> SearchRight(coords, stop)]

\* ds.sel(lon=slice(minx, maxx), lat=slice(miny, maxy))
Sel(ds) ==
    LET x == SliceLocs(ds.lon, minx, maxx)
        y == SliceLocs(ds.lat, miny, maxy)
    IN  [lon |-> SubSeq(ds.lon, x.first, x.last),
         lat |-> SubSeq(ds.lat, y.first, y.last),
         val |-> [j \in 1..(y.last - y.first + 1) |->
                    SubSeq(ds.val[j + y.first - 1], x.first, x.last)]]

InitClip ==
    /\ tide = [paths |-> 0, i |-> 0, input |-> Unset, output |-> Unset, globbed |-> FALSE]
    /\ KernelIdle /\ CallIdle /\ BookIdle

\* paths = [x for x in glob(...)]
Glob ==
    /\ tide # Unset /\ ~tide.globbed
    /\ \E n \in 0..MaxFiles : tide' = [tide EXCEPT !.paths = n, !.globbed = TRUE]
    /\ UNCHANGED <<kernel, call, book>>

\* one iteration of the loop: open the next file, clip it, write it
ClipFile ==
    /\ tide # Unset /\ tide.globbed /\ tide.i < tide.paths
    /\ \E ds \in TideFiles :
          tide' = [tide EXCEPT !.i = tide.i + 1, !.input = ds, !.output = Sel(ds)]
    /\ UNCHANGED <<kernel, call, book>>

NextClip == Glob \/ ClipFile

SpecClip == InitClip /\ [][NextClip]_vars

\* the grid points of a dataset: <<lon, lat, value>>
Points(ds) ==
    {<<ds.lon[i], ds.lat[j], ds.val[j][i]>> : i \in DOMAIN ds.lon, j \in DOMAIN ds.lat}

InBox(pt) == minx <= pt[1] /\ pt[1] <= maxx /\ miny <= pt[2] /\ pt[2] <= maxy

Clipped == tide # Unset /\ tide.i > 0

\* C10: the dataset written for a file holds exactly the grid points of the
\* file whose longitude is in [minx, maxx] and latitude in [miny, maxy],
\* with their values, and no point outside the box.
C10_ClipExact ==
    Clipped =>
        /\ Points(tide.output) = {pt \in Points(tide.input) : InBox(pt)}
        /\ \A pt \in Points(tide.output) : InBox(pt)
        /\ Len(tide.output.val) = Len(tide.output.lat)
        /\ \A j \in DOMAIN tide.output.val :
              Len(tide.output.val[j]) = Len(tide.output.lon)

\* C10 witness: a file with points on all four edges of the box and points
\* just outside each has been clipped to the nine points on and inside the box
C10_Witness ==
    /\ Clipped
    /\ Len(tide.input.lon) = 5 /\ Len(tide.input.lat) = 5
    /\ Cardinality(Points(tide.output)) = 9

---------------------------------------------------------------------------
(* Specification SpecCells: the cells of the water notebook run top to    *)
(* bottom up to some cell, then cells picked by hand in any order.  pc is *)
(* the next cell of the top-to-bottom run, cell counts the cells run by   *)
(* hand since, and done is the filter cell's last execution followed by   *)
(* the dB cell's executions since.  A cell that raises (a name it reads   *)
(* is not bound) changes no name and is not a step.                       *)

\* most cells run by hand after the top-to-bottom run is left
MaxByHand == 1
\* most executions of the dB cell counted after one of the filter cell
MaxDecibel == 2

\* a fresh kernel; threshold_minimum is taken to be one of Rules (the filtered
\* bands are written before it is called and by no cell that reads its result)
InitCells ==
    /\ pc = 1 /\ pass = 1 /\ failed = FALSE
    /\ geom = Unset /\ items = Unset /\ data = Unset /\ valid = Unset
    /\ threshold_vv = Unset /\ S1_default = Unset /\ water_summary = Unset
    /\ rule = [gap |-> 0, at |-> "between"]
    /\ nb = "water" /\ cell = 0 /\ done = <<>> /\ found = 0
    /\ CallIdle /\ TideIdle

\* run cell c: as the next cell of the top-to-bottom run, or by hand
Exec(c) ==
    /\ \/ cell = 0 /\ pc = c /\ pc' = c + 1 /\ cell' = 0
       \/ /\ cell < MaxByHand /\ (cell > 0 \/ pc # c)
          /\ pc' = pc /\ cell' = cell + 1
    /\ UNCHANGED <<pass, failed, rule, nb, found, call, tide>>

\* an import, client or plot cell of the top-to-bottom run (run by hand
\* it would change no name either)
ExecDisplay ==
    /\ cell = 0 /\ pc \in DisplayCells /\ Exec(pc)
    /\ UNCHANGED <<geom, items, data, valid, threshold_vv, S1_default,
                   water_summary, done>>

ExecSelect ==
    /\ Exec(SelectCell)
    /\ geom' \in Geoms
    /\ UNCHANGED <<items, data, valid, threshold_vv, S1_default, water_summary, done>>

ExecSearch ==
    /\ geom # Unset /\ Exec(SearchCell)
    /\ items' = search(geom)
    /\ UNCHANGED <<geom, data, valid, threshold_vv, S1_default, water_summary, done>>

\* data is bound to a new Dataset, without the variables added to the old
ExecLoad ==
    /\ items # Unset /\ Exec(LoadCell)
    /\ data' = load(items)
    /\ UNCHANGED <<geom, items, valid, threshold_vv, S1_default, water_summary, done>>

ExecRatio ==
    /\ data # Unset /\ Exec(RatioCell)
    /\ data' = RatioBand(data)
    /\ UNCHANGED <<geom, items, valid, threshold_vv, S1_default, water_summary, done>>

ExecFilter ==
    /\ data # Unset /\ Exec(FilterCell)
    /\ valid' = isfinite(data)
    /\ data' = FilterBands(data, valid')
    /\ done' = <<FilterCell>>
    /\ UNCHANGED <<geom, items, threshold_vv, S1_default, water_summary>>

ExecDecibel ==
    /\ Has("filtered_vv") /\ Len(done) <= MaxDecibel /\ Exec(DecibelCell)
    /\ data' = DecibelBands(data)
    /\ done' = Append(done, DecibelCell)
    /\ UNCHANGED <<geom, items, valid, threshold_vv, S1_default, water_summary>>

ExecThreshold ==
    /\ Has("filtered_vv") /\ ~ThresholdRaises(NoNans(data["filtered_vv"]))
    /\ Exec(ThresholdCell)
    /\ threshold_vv' = threshold_minimum(NoNans(data["filtered_vv"]), rule)
    /\ UNCHANGED <<geom, items, data, valid, S1_default, water_summary, done>>

ExecDefine ==
    /\ threshold_vv # Unset /\ Exec(DefineCell)
    /\ S1_default' = threshold_vv
    /\ UNCHANGED <<geom, items, data, valid, threshold_vv, water_summary, done>>

\* the band and the threshold are on the same scale at this pixel, or one of
\* them is not finite
Comparable(v, threshold) ==
    ~IsFinite(v) \/ ~IsFinite(threshold) \/ v.lg = threshold.lg

\* data['water'] = S1_water_classifier(data.filtered_vv).s1_water; where the
\* band was converted again after the threshold was taken from it, the
\* outcome of < at a pixel is left open
ExecApply ==
    /\ S1_default # Unset /\ Has("filtered_vv") /\ Exec(ApplyCell)
    /\ LET cube == data["filtered_vv"]
           open == {tp \in Times \X Pixels(Shape.rows, Shape.cols) :
                       ~Comparable(cube[tp[1]][tp[2]], S1_default)}
       IN  \E below \in SUBSET open :
              data' = Assign(data, "water",
                             [t \in DOMAIN cube |-> [p \in DOMAIN cube[t] |->
                                 IF <<t, p>> \in open THEN <<t, p>> \in below
                                 ELSE Less(cube[t][p], S1_default)]])
    /\ UNCHANGED <<geom, items, valid, threshold_vv, S1_default, water_summary, done>>

ExecSummary ==
    /\ Has("water") /\ Exec(SummaryCell)
    /\ water_summary' = Summarise(data["water"])
    /\ UNCHANGED <<geom, items, data, valid, threshold_vv, S1_default, done>>

NextCells ==
    \/ ExecDisplay \/ ExecSelect \/ ExecSearch \/ ExecLoad \/ ExecRatio
    \/ ExecFilter \/ ExecDecibel \/ ExecThreshold \/ ExecDefine \/ ExecApply
    \/ ExecSummary

SpecCells == InitCells /\ [][NextCells]_vars

\* what the filter cell computes from the bands data holds now
LeeOutput ==
    LET raw == [b \in Bands |-> data[b]]
    IN  FilterBands(raw, isfinite(raw))

\* two values are the same number: 10*log10(q) is rational only for q a
\* power of ten, and 10 is the one rational it maps to itself
SameValue(a, b) ==
    \/ a = b
    \/ /\ IsFinite(a) /\ IsFinite(b) /\ a.lg # b.lg
       /\ LET low  == IF a.lg < b.lg THEN a ELSE b
              high == IF a.lg < b.lg THEN b ELSE a
          IN  \/ high.n = 10 /\ high.d = 1 /\ low.n = 10 /\ low.d = 1
              \/ /\ high.lg = low.lg + 1 /\ low.d = 1
                 /\ \/ high.n = 1 /\ high.d = 1 /\ low.n = 0
                    \/ high.n = 100 /\ high.d = 1 /\ low.n = 20
                    \/ high.n = 1 /\ high.d = 10 /\ low.n = -10
                    \/ high.n = 1 /\ high.d = 100 /\ low.n = -20

\* filtered_vv and filtered_vh hold 10*log10 of the Lee-filter output
HoldDecibel ==
    /\ Has("filtered_vv") /\ Has("filtered_vh")
    /\ LET lee == LeeOutput
       IN  \A b \in Bands : \A t \in Times : \A p \in Pixels(Shape.rows, Shape.cols) :
              SameValue(data[FilteredName(b)][t][p],
                        Decibel(lee[FilteredName(b)][t][p]))

\* some pixel of the Lee-filter output is not null
SomeNotNull ==
    LET lee == LeeOutput
    IN  \E b \in Bands : \E t \in Times : \E p \in Pixels(Shape.rows, Shape.cols) :
            IsFinite(lee[FilteredName(b)][t][p])

\* executions of the dB cell since the filter cell last ran
DecibelRuns == IF done = <<>> THEN 0 ELSE Len(done) - 1

\* no cell was run by hand: the run so far is top to bottom
TopToBottom == cell = 0

\* in a top-to-bottom run the filter cell runs before the dB cell, and the
\* dB cell has run once when the threshold and the classifier cells run
InOrder ==
    TopToBottom =>
        /\ pc <= FilterCell => done = <<>>
        /\ (FilterCell < pc /\ pc <= DecibelCell) => done = <<FilterCell>>
        /\ DecibelCell < pc => (done = <<FilterCell, DecibelCell>> /\ HoldDecibel)

\* C12 (the claim as stated): under any sequence of cell executions the
\* filtered bands hold the dB of the Lee-filter output if and only if the dB
\* cell has run exactly once since the filter cell last ran; a
\* top-to-bottom run filters first and converts exactly once before the
\* threshold and the classifier read the bands.
C12_DecibelOnceIff ==
    /\ HoldDecibel <=> (done # <<>> /\ DecibelRuns = 1)
    /\ InOrder

\* C12 (amended): while data holds the filtered bands (the load cell has
\* not run since the filter cell) and some pixel of the Lee-filter output is
\* not null, the bands hold the dB of that output if and only if the dB
\* cell has run exactly once since the filter cell last ran; where every
\* pixel is null the bands are all null whatever the number of
\* conversions; a top-to-bottom run filters first and converts exactly
\* once before the threshold and the classifier read the bands.
C12_DecibelOnceWhereData ==
    /\ (Has("filtered_vv") /\ SomeNotNull) => (HoldDecibel <=> DecibelRuns = 1)
    /\ (Has("filtered_vv") /\ ~SomeNotNull) => HoldDecibel
    /\ Has("filtered_vv") => done # <<>>
    /\ InOrder

\* C12 witness: the dB cell has run twice on bands with data, and they no
\* longer hold the dB of the Lee-filter output
C12_Witness ==
    /\ Has("filtered_vv") /\ SomeNotNull
    /\ DecibelRuns = 2 /\ ~HoldDecibel

===========================================================================
